---- MODULE Spec2Model ----
(***************************************************************************)
(* Affine sampling pipeline of locnet.py: affine_grid_generator,           *)
(* bilinear_sampler, get_pixel_value and their composition in LocNet.call. *)
(*                                                                         *)
(* Tensors are functions over 0-based index ranges, nested outermost axis  *)
(* first.  float32 values are modelled as exact rationals <<n, d>> in      *)
(* lowest terms with d > 0 (rounding is abstracted away); int32 values are *)
(* TLA+ integers (no coordinate of the bounded model leaves the int32      *)
(* range).                                                                 *)
(***************************************************************************)
EXTENDS Integers, Sequences, FiniteSets, TLC

\* ---------------------------------------------------------------- bounds
MaxIn == 3       \* input images have 1..MaxIn rows and columns
MaxOut == 3      \* image_height, image_width range over 1..MaxOut
MaxBatch == 2    \* a batch has 1 or MaxBatch elements
MaxChan == 2     \* an image has 1 or MaxChan channels

\* ------------------------------------------------------- exact rationals
Abs(n) == IF n < 0 THEN -n ELSE n

RECURSIVE Gcd(_, _)
Gcd(a, b) == IF b = 0 THEN a ELSE Gcd(b, a % b)

\* n/d in lowest terms, d > 0
Rat(n, d) ==
  LET s == IF d < 0 THEN -1 ELSE 1
      g == Gcd(Abs(n), Abs(d))
  IN  <<(s * n) \div g, (s * d) \div g>>

RInt(k) == <<k, 1>>
RAdd(p, q) == Rat(p[1] * q[2] + q[1] * p[2], p[2] * q[2])
RSub(p, q) == Rat(p[1] * q[2] - q[1] * p[2], p[2] * q[2])
RMul(p, q) == Rat(p[1] * q[1], p[2] * q[2])
RLt(p, q) == p[1] * q[2] < q[1] * p[2]
RIsInt(p) == p[2] = 1

\* tf.floor followed by tf.cast(., 'int32')
FloorToInt(p) == p[1] \div p[2]

\* tf.cast(., 'float32') of an int32
ToFloat(k) == RInt(k)

Zero == RInt(0)
One == RInt(1)
Half == Rat(1, 2)

\* ------------------------------------------------------------ tensor shape
\* The value an operation returns, computed once: TLC evaluates a function
\* expression element by element at every use until a comparison has turned
\* it into an explicit table.
Tensor(t) == IF t = t THEN t ELSE t

Dim(t) == Cardinality(DOMAIN t)
Range0(n) == 0 .. (n - 1)

\* ---------------------------------------------------- affine_grid_generator
\* tf.linspace(-1.0, 1.0, num): num evenly spaced values, a single value is
\* the start of the range
Linspace(num) ==
  [j \in Range0(num) |->
     IF num = 1 THEN RInt(-1) ELSE Rat(2 * j - (num - 1), num - 1)]

\* meshgrid with indexing='ij': the result has shape (len(x), len(y))
MeshgridXij(x, y) == [i \in DOMAIN x |-> [j \in DOMAIN y |-> x[i]]]

\* tf.meshgrid(x, y) with the default 'xy' indexing: both results have
\* shape (len(y), len(x))
MeshgridX(x, y) == [i \in DOMAIN y |-> [j \in DOMAIN x |-> x[j]]]
MeshgridY(x, y) == [i \in DOMAIN y |-> [j \in DOMAIN x |-> y[i]]]

\* tf.reshape(t, [-1]) of a rank-2 tensor: row-major flattening
Flatten(t) ==
  LET rows == Dim(t)
      cols == Dim(t[0])
  IN  [k \in Range0(rows * cols) |-> t[k \div cols][k % cols]]

\* tf.matmul(theta, sampling_grid): batched (2,3) x (3,N) product
Matmul(theta, sampling_grid) ==
  [b \in DOMAIN theta |->
    [c \in DOMAIN theta[b] |->
      [k \in DOMAIN sampling_grid[b][0] |->
         RAdd(RAdd(RMul(theta[b][c][0], sampling_grid[b][0][k]),
                   RMul(theta[b][c][1], sampling_grid[b][1][k])),
              RMul(theta[b][c][2], sampling_grid[b][2][k]))]]]

\* reshape to [num_batch, 2, width, height]
ReshapeGridSwapped(batch_grids, num_batch, height, width) ==
  [b \in Range0(num_batch) |->
    [c \in Range0(2) |->
      [i \in Range0(width) |->
        [j \in Range0(height) |-> batch_grids[b][c][i * height + j]]]]]

\* tf.reshape(batch_grids, [num_batch, 2, height, width])
ReshapeGrid(batch_grids, num_batch, height, width) ==
  [b \in Range0(num_batch) |->
    [c \in Range0(2) |->
      [i \in Range0(height) |->
        [j \in Range0(width) |-> batch_grids[b][c][i * width + j]]]]]

affine_grid_generator(height, width, theta) ==
  LET num_batch == Dim(theta)
      x == Linspace(width)
      y == Linspace(height)
      x_t == MeshgridX(x, y)
      y_t == MeshgridY(x, y)
      x_t_flat == Flatten(x_t)
      y_t_flat == Flatten(y_t)
      ones == [k \in DOMAIN x_t_flat |-> One]
      sampling_grid == [r \in Range0(3) |->
                          CASE r = 0 -> x_t_flat
                            [] r = 1 -> y_t_flat
                            [] r = 2 -> ones]
      tiled == [b \in Range0(num_batch) |-> sampling_grid]
      batch_grids == Matmul(theta, tiled)
  IN  ReshapeGrid(batch_grids, num_batch, height, width)

\* ---------------------------------------------------------- program state
VARIABLES
  img,           \* inputs: image batch (B, H, W, C)
  theta,         \* affine_params output reshaped to (B, 2, 3)
  image_height,  \* LocNet.image_height
  image_width,   \* LocNet.image_width
  pc,            \* "call" -> "grid" -> "done"
  grid,          \* result of affine_grid_generator, (B, 2, H, W)
  locals,        \* locals of bilinear_sampler when it ended
  raised,        \* TRUE when the call ended in InvalidArgumentError
  out            \* result of bilinear_sampler

vars == <<img, theta, image_height, image_width, pc, grid, locals, raised, out>>

None == "none"

\* ---------------------------------------------------------- get_pixel_value
\* tf.gather_nd(img, indices) with indices[b][i][j] = <<batch, row, column>>.
\* The kernel does not check bounds the same way everywhere: an index out of
\* bounds is an InvalidArgumentError on CPU and stores zeros on GPU.  The
\* result is [oob |-> some index is out of bounds, val |-> the tensor the
\* kernel produces when it does not raise].
InBounds(params, idx) ==
  /\ idx[1] \in DOMAIN params
  /\ idx[2] \in DOMAIN params[0]
  /\ idx[3] \in DOMAIN params[0][0]

GatherNd(params, indices) ==
  LET all == {<<b, i, j>> \in (DOMAIN indices) \X (DOMAIN indices[0])
                                \X (DOMAIN indices[0][0]) : TRUE}
      bad == \E p \in all : ~InBounds(params, indices[p[1]][p[2]][p[3]])
  IN  [oob |-> bad,
       val |-> [b \in DOMAIN indices |->
                 [i \in DOMAIN indices[b] |->
                   [j \in DOMAIN indices[b][i] |->
                     LET idx == indices[b][i][j]
                     IN  IF InBounds(params, idx)
                         THEN params[idx[1]][idx[2]][idx[3]]
                         ELSE [ch \in DOMAIN params[0][0][0] |-> Zero]]]]]

\* get_pixel_value without the batch index: every element reads image 0
get_pixel_value_batch0(image, x, y) ==
  GatherNd(image, [k \in DOMAIN x |-> [i \in DOMAIN x[k] |->
                     [j \in DOMAIN x[k][i] |-> <<0, y[k][i][j], x[k][i][j]>>]]])

get_pixel_value(image, x, y) ==
  LET batch_size == Dim(x)
      height == Dim(x[0])
      width == Dim(x[0][0])
      batch_idx == [k \in Range0(batch_size) |-> k]
      b == [k \in Range0(batch_size) |->
             [i \in Range0(height) |-> [j \in Range0(width) |-> batch_idx[k]]]]
      indices == [k \in Range0(batch_size) |->
                   [i \in Range0(height) |->
                     [j \in Range0(width) |->
                        <<b[k][i][j], y[k][i][j], x[k][i][j]>>]]]
  IN  GatherNd(image, indices)

\* ---------------------------------------------------------- bilinear_sampler
\* x = 0.5 * ((x + 1.0) * tf.cast(max_x-1, 'float32'))
Rescale(v, max_v) == RMul(Half, RMul(RAdd(v, One), ToFloat(max_v - 1)))

\* the operations below act elementwise on a (B, H, W) tensor
RescaleAll(t, max_v) ==
  [b \in DOMAIN t |-> [i \in DOMAIN t[b] |-> [j \in DOMAIN t[b][i] |->
     Rescale(t[b][i][j], max_v)]]]

\* tf.cast(tf.floor(t), 'int32')
FloorAll(t) ==
  [b \in DOMAIN t |-> [i \in DOMAIN t[b] |-> [j \in DOMAIN t[b][i] |->
     FloorToInt(t[b][i][j])]]]

\* t + 1
PlusOne(t) ==
  [b \in DOMAIN t |-> [i \in DOMAIN t[b] |-> [j \in DOMAIN t[b][i] |->
     t[b][i][j] + 1]]]

\* a clip that forgets the upper limit
ClipLowerOnly(v, lo, hi) == IF v < lo THEN lo ELSE v

\* tf.clip_by_value(v, lo, hi) = min(max(v, lo), hi)
ClipByValue(v, lo, hi) ==
  LET m == IF v < lo THEN lo ELSE v
  IN  IF m > hi THEN hi ELSE m

\* the weights with wd copied from wc
WeightsCopied(x, y, x0, x1, y0, y1) ==
  <<RMul(RSub(x1, x), RSub(y1, y)),
    RMul(RSub(x1, x), RSub(y, y0)),
    RMul(RSub(x, x0), RSub(y1, y)),
    RMul(RSub(x, x0), RSub(y1, y))>>

ClipAll(t, lo, hi) ==
  [b \in DOMAIN t |-> [i \in DOMAIN t[b] |-> [j \in DOMAIN t[b][i] |->
     ClipByValue(t[b][i][j], lo, hi)]]]

\* the four weights of one output pixel, <<wa, wb, wc, wd>>
Weights(x, y, x0, x1, y0, y1) ==
  <<RMul(RSub(x1, x), RSub(y1, y)),
    RMul(RSub(x1, x), RSub(y, y0)),
    RMul(RSub(x, x0), RSub(y1, y)),
    RMul(RSub(x, x0), RSub(y, y0))>>

\* tf.add_n([wa*Ia, wb*Ib, wc*Ic, wd*Id]) with the weights broadcast over
\* the channel axis
Combine(w, Ia, Ib, Ic, Id) ==
  [b \in DOMAIN Ia |-> [i \in DOMAIN Ia[b] |-> [j \in DOMAIN Ia[b][i] |->
    LET wt == w[b][i][j]
        pa == Ia[b][i][j]
        pb == Ib[b][i][j]
        pcc == Ic[b][i][j]
        pd == Id[b][i][j]
    IN  [ch \in DOMAIN pa |->
           RAdd(RAdd(RAdd(RMul(wt[1], pa[ch]), RMul(wt[2], pb[ch])),
                     RMul(wt[3], pcc[ch])),
                RMul(wt[4], pd[ch]))]]]]

bilinear_sampler(image, xn, yn) ==
  LET H == Dim(image[0])
      W == Dim(image[0][0])
      max_y == H - 1
      max_x == W - 1
      zero == 0
      x == Tensor(RescaleAll(xn, max_x))
      y == Tensor(RescaleAll(yn, max_y))
      x0f == Tensor(FloorAll(x))
      x1f == PlusOne(x0f)
      y0f == Tensor(FloorAll(y))
      y1f == PlusOne(y0f)
      x0 == Tensor(ClipAll(x0f, zero, max_x))
      x1 == Tensor(ClipAll(x1f, zero, max_x))
      y0 == Tensor(ClipAll(y0f, zero, max_y))
      y1 == Tensor(ClipAll(y1f, zero, max_y))
      Ia == get_pixel_value(image, x0, y0)
      Ib == get_pixel_value(image, x0, y1)
      Ic == get_pixel_value(image, x1, y0)
      Id == get_pixel_value(image, x1, y1)
      w == [b \in DOMAIN x |-> [i \in DOMAIN x[b] |-> [j \in DOMAIN x[b][i] |->
              Weights(x[b][i][j], y[b][i][j],
                      ToFloat(x0[b][i][j]), ToFloat(x1[b][i][j]),
                      ToFloat(y0[b][i][j]), ToFloat(y1[b][i][j]))]]]
  IN  [x |-> x, y |-> y, x0 |-> x0, x1 |-> x1, y0 |-> y0, y1 |-> y1, w |-> w,
       oob |-> Ia.oob \/ Ib.oob \/ Ic.oob \/ Id.oob,
       out |-> Combine(w, Ia.val, Ib.val, Ic.val, Id.val)]

\* ------------------------------------------------------------------ inputs
\* an image batch whose elements are numbered in row-major order, so that a
\* single 4x4 single-channel image holds 0..15
RampImage(B, H, W, C) ==
  [b \in Range0(B) |-> [i \in Range0(H) |-> [j \in Range0(W) |->
     [ch \in Range0(C) |-> RInt(((b * H + i) * W + j) * C + ch)]]]]

Mat(a, b, c, d, e, f) ==
  [r \in Range0(2) |-> [k \in Range0(3) |->
     CASE r = 0 /\ k = 0 -> a [] r = 0 /\ k = 1 -> b [] r = 0 /\ k = 2 -> c
       [] r = 1 /\ k = 0 -> d [] r = 1 /\ k = 1 -> e [] r = 1 /\ k = 2 -> f]]

\* transforms the parameter regressor may produce
Identity == Mat(One, Zero, Zero, Zero, One, Zero)
ZoomOut == Mat(RInt(3), Zero, Zero, Zero, RInt(3), Zero)
AllZero == Mat(Zero, Zero, Zero, Zero, Zero, Zero)
ZoomIn == Mat(Half, Zero, Zero, Zero, Half, Zero)
Shift == Mat(One, Zero, One, Zero, One, Rat(-1, 2))
Singular == Mat(One, One, Zero, One, One, Zero)
General == Mat(RInt(2), Half, One, RInt(-1), RInt(3), RInt(-2))
Extreme == Mat(RInt(64), Zero, Zero, Zero, RInt(-64), Zero)

Thetas ==
  <<Identity, ZoomOut, AllZero, ZoomIn, Shift, Singular, General, Extreme>>

\* a batch of B transforms: consecutive entries of Thetas from position k on
ThetaBatch(B, k) ==
  [b \in Range0(B) |-> Thetas[((k - 1 + b) % Len(Thetas)) + 1]]

\* ---------------------------------------------------------------- LocNet
Fresh ==
  /\ pc = "call"
  /\ grid = None
  /\ locals = None
  /\ raised = FALSE
  /\ out = None

InitInputs(B, Bt) ==
  /\ \E H \in 1 .. MaxIn, W \in 1 .. MaxIn, C \in {1, MaxChan} :
       img = RampImage(B, H, W, C)
  /\ \E k \in 1 .. Len(Thetas) : theta = ThetaBatch(Bt, k)
  /\ image_height \in 1 .. MaxOut
  /\ image_width \in 1 .. MaxOut
  /\ Fresh

\* a single 4x4 single-channel image with values 0..15 in row-major order,
\* resampled to 4x4 under the identity or under a zoom on the centre
InitScenario ==
  /\ img = RampImage(1, 4, 4, 1)
  /\ theta \in {ThetaBatch(1, 1), ThetaBatch(1, 4)}
  /\ image_height = 4
  /\ image_width = 4
  /\ Fresh

\* LocNet.call: theta is predicted from the inputs, one matrix per image
Init ==
  \/ \E B \in {1, MaxBatch} : InitInputs(B, B)
  \/ InitScenario

\* direct use of the two functions: the batch of theta is the caller's
InitDirect == \E B \in {1, MaxBatch}, Bt \in {1, MaxBatch} : InitInputs(B, Bt)

\* x_s = grid[:, 0, :, :] and y_s = grid[:, 1, :, :]
GridX(g) == [b \in DOMAIN g |-> g[b][0]]
GridY(g) == [b \in DOMAIN g |-> g[b][1]]

\* where tf.gather_nd may have been placed
Devices == {"CPU", "GPU"}

\* LocNet.call from the reshaped theta on: the grid for the configured
\* output size, split into x_s and y_s, then the sampler
call(inputs, th) ==
  LET g == Tensor(affine_grid_generator(image_height, image_width, th))
  IN  bilinear_sampler(inputs, GridX(g), GridY(g))

AffineGridGenerator ==
  /\ pc = "call"
  /\ grid' = affine_grid_generator(image_height, image_width, theta)
  /\ pc' = "grid"
  /\ UNCHANGED <<img, theta, image_height, image_width, locals, raised, out>>

BilinearSampler ==
  /\ pc = "grid"
  /\ \E r \in {bilinear_sampler(img, GridX(grid), GridY(grid))} :
       /\ locals' = [f \in {"x", "y", "x0", "x1", "y0", "y1", "w"} |-> r[f]]
       /\ raised' \in {r.oob /\ d = "CPU" : d \in Devices}
       /\ out' = IF raised' THEN None ELSE r.out
  /\ pc' = "done"
  /\ UNCHANGED <<img, theta, image_height, image_width, grid>>

Next == AffineGridGenerator \/ BilinearSampler

Spec == Init /\ [][Next]_vars

SpecDirect == InitDirect /\ [][Next]_vars

\* ================================================================ claims
Done == pc = "done"
Returned == pc = "done" /\ ~raised

B_in == Dim(img)
H_in == Dim(img[0])
W_in == Dim(img[0][0])
Chans == Dim(img[0][0][0])

\* the output pixels <<b, i, j>> of the call
OutPixels == (DOMAIN grid) \X Range0(image_height) \X Range0(image_width)

At(t, p) == t[p[1]][p[2]][p[3]]

\* 0 <= v <= hi
Inside(v, hi) == ~RLt(v, Zero) /\ ~RLt(RInt(hi), v)

\* v restricted to [0, hi]
Clamped(v, hi) == IF RLt(v, Zero) THEN Zero ELSE IF RLt(RInt(hi), v) THEN RInt(hi) ELSE v

\* floor and floor + 1 of a pixel coordinate survive the clamp
Unclamped(p) ==
  /\ At(locals.x0, p) = FloorToInt(At(locals.x, p))
  /\ At(locals.x1, p) = FloorToInt(At(locals.x, p)) + 1
  /\ At(locals.y0, p) = FloorToInt(At(locals.y, p))
  /\ At(locals.y1, p) = FloorToInt(At(locals.y, p)) + 1

\* ---------------------------------------------------------------- C1
\* C1: identity round trip.  For every batch element whose theta is the
\* identity, with the output size equal to the input size (the W grid
\* columns and H grid rows then stand for the W pixel columns and H pixel
\* rows), the call returns that element's image unchanged at every row,
\* column and channel; the single 4x4 single-channel image 0..15 is one of
\* the inputs.
IdentityRoundTrip ==
  (Returned /\ image_height = H_in /\ image_width = W_in) =>
     \A b \in DOMAIN theta : theta[b] = Identity => out[b] = img[b]

\* ---------------------------------------------------------------- C2
\* C2: index safety.  Whatever theta is, the call does not raise and each of
\* the four get_pixel_value calls receives only column indices in
\* 0..W_in-1 and row indices in 0..H_in-1.
IndexSafety ==
  Done =>
    /\ ~raised
    /\ \A p \in OutPixels :
         /\ At(locals.x0, p) \in 0 .. (W_in - 1)
         /\ At(locals.x1, p) \in 0 .. (W_in - 1)
         /\ At(locals.y0, p) \in 0 .. (H_in - 1)
         /\ At(locals.y1, p) \in 0 .. (H_in - 1)

\* a call under a singular or extreme theta in which the clamp acted on
\* both sides of both axes
IndexSafetyWitness ==
  /\ Done
  /\ theta[0] \in {AllZero, Singular, Extreme}
  /\ \E p \in OutPixels : FloorToInt(At(locals.x, p)) + 1 > W_in - 1
  /\ \E p \in OutPixels : FloorToInt(At(locals.x, p)) < 0
  /\ \E p \in OutPixels : FloorToInt(At(locals.y, p)) + 1 > H_in - 1
  /\ \E p \in OutPixels : FloorToInt(At(locals.y, p)) < 0

\* ---------------------------------------------------------------- C3
\* C3: edge replication.  An output pixel whose pixel-space coordinate lies
\* outside [0, W_in-1] x [0, H_in-1] equals the sample at the coordinate
\* clamped to the boundary; stated for the pixels whose clamped coordinate
\* is a pixel centre, where that sample is the edge pixel itself.
EdgeReplication ==
  Returned =>
    \A p \in OutPixels :
      LET x == At(locals.x, p)
          y == At(locals.y, p)
          cx == Clamped(x, W_in - 1)
          cy == Clamped(y, H_in - 1)
      IN  (/\ ~Inside(x, W_in - 1) \/ ~Inside(y, H_in - 1)
           /\ RIsInt(cx)
           /\ RIsInt(cy))
          => At(out, p) = img[p[1]][cy[1]][cx[1]]

\* ---------------------------------------------------------------- C4
\* C4: shape contract.  The output of the call has shape
\* (B, image_height, image_width, C) whatever H_in and W_in are.
ShapeContract ==
  Done =>
    /\ ~raised
    /\ DOMAIN out = Range0(B_in)
    /\ \A b \in DOMAIN out :
         /\ DOMAIN out[b] = Range0(image_height)
         /\ \A i \in DOMAIN out[b] :
              /\ DOMAIN out[b][i] = Range0(image_width)
              /\ \A j \in DOMAIN out[b][i] :
                   DOMAIN out[b][i][j] = Range0(Chans)

\* a returned call whose output size differs from the input size on both
\* axes, on a batch of several multi-channel images
ShapeContractWitness ==
  /\ Returned
  /\ B_in > 1 /\ Chans > 1
  /\ image_height # image_width
  /\ image_height # H_in /\ image_width # W_in /\ H_in # W_in

\* ---------------------------------------------------------------- C5
\* C5: partition of unity.  At every output pixel whose four corner
\* coordinates the clamp left unchanged, wa + wb + wc + wd = 1.
SumOfWeights(w) == RAdd(RAdd(RAdd(w[1], w[2]), w[3]), w[4])

PartitionOfUnity ==
  Done =>
    \A p \in OutPixels : Unclamped(p) => SumOfWeights(At(locals.w, p)) = One

\* an unclamped pixel strictly between pixel centres on both axes: all
\* four weights are non-zero
PartitionOfUnityWitness ==
  /\ Done
  /\ \E p \in OutPixels :
       /\ Unclamped(p)
       /\ ~RIsInt(At(locals.x, p)) /\ ~RIsInt(At(locals.y, p))
       /\ \A k \in 1 .. 4 : At(locals.w, p)[k] # Zero

\* ---------------------------------------------------------------- C6
\* C6: batch independence.  Output element b is what the call returns for
\* the one-element batch (image[b], theta[b]), and running the call on the
\* (image, theta) pairs stacked in any other order q yields the outputs in
\* that order: out'[k] = out[q[k]].
Orders(n) ==
  {q \in [Range0(n) -> Range0(n)] :
     \A a, b \in Range0(n) : a # b => q[a] # q[b]}

Reorder(t, q) == [k \in DOMAIN t |-> t[q[k]]]

BatchIndependence ==
  Returned =>
    /\ \A b \in DOMAIN img :
         call([k \in {0} |-> img[b]], [k \in {0} |-> theta[b]]).out[0] = out[b]
    /\ \A q \in Orders(B_in) :
         (\E k \in DOMAIN q : q[k] # k) =>
            call(Reorder(img, q), Reorder(theta, q)).out = Reorder(out, q)

\* a returned call on a batch whose elements have different outputs
BatchIndependenceWitness ==
  /\ Returned
  /\ B_in > 1
  /\ theta[0] # theta[1]
  /\ out[0] # out[1]
  /\ \E p \in OutPixels : At(out, p) # [ch \in Range0(Chans) |-> Zero]

\* ---------------------------------------------------------------- C7
\* C7: a shape mismatch fails fast.  When the batch size of theta, and so of
\* the sampling coordinates, differs from the batch size of the images, the
\* sampler ends in an error and returns no output.
ShapeMismatchFailsFast ==
  (Done /\ Dim(theta) # Dim(img)) => raised

\* ---------------------------------------------------------------- C8
\* C8: rescale endpoints.  The rescale of bilinear_sampler maps the
\* normalized coordinate -1 to pixel 0 and +1 to pixel dim-1 (W_in-1 for x,
\* H_in-1 for y).
RescaleEndpoints ==
  Done =>
    \A p \in OutPixels :
      /\ At(GridX(grid), p) = RInt(-1) => At(locals.x, p) = Zero
      /\ At(GridX(grid), p) = One => At(locals.x, p) = RInt(W_in - 1)
      /\ At(GridY(grid), p) = RInt(-1) => At(locals.y, p) = Zero
      /\ At(GridY(grid), p) = One => At(locals.y, p) = RInt(H_in - 1)

\* ---------------------------------------------------------------- C9
\* C9: grid-point degeneracy.  At an output pixel whose pixel-space
\* coordinate (x, y) is a pixel centre of the image, last row and last
\* column included, one corner located at (x, y) has weight 1, the other
\* three have weight 0, and the output is image[b, y, x, :].
Corner(p, k) ==
  CASE k = 1 -> <<At(locals.x0, p), At(locals.y0, p)>>
    [] k = 2 -> <<At(locals.x0, p), At(locals.y1, p)>>
    [] k = 3 -> <<At(locals.x1, p), At(locals.y0, p)>>
    [] k = 4 -> <<At(locals.x1, p), At(locals.y1, p)>>

GridPointDegeneracy ==
  Returned =>
    \A p \in OutPixels :
      LET x == At(locals.x, p)
          y == At(locals.y, p)
          w == At(locals.w, p)
      IN  (/\ RIsInt(x) /\ Inside(x, W_in - 1)
           /\ RIsInt(y) /\ Inside(y, H_in - 1))
          => /\ \E k \in 1 .. 4 :
                  /\ w[k] = One
                  /\ Corner(p, k) = <<x[1], y[1]>>
                  /\ \A m \in (1 .. 4) \ {k} : w[m] = Zero
             /\ At(out, p) = img[p[1]][y[1]][x[1]]

\* ---------------------------------------------------------------- C10
\* C10: affine grid layout.  grid has shape (B, 2, H, W) and
\* grid[b,0,i,j] = theta[b,0,0]*xs[j] + theta[b,0,1]*ys[i] + theta[b,0,2],
\* grid[b,1,i,j] = theta[b,1,0]*xs[j] + theta[b,1,1]*ys[i] + theta[b,1,2],
\* with xs the W and ys the H evenly spaced values over [-1, 1].
EvenlySpaced(n, k) == IF n = 1 THEN RInt(-1) ELSE Rat(2 * k - (n - 1), n - 1)

AffineRow(t, x, y) == RAdd(RAdd(RMul(t[0], x), RMul(t[1], y)), t[2])

====
